---- MODULE Spec2Model ----
(***************************************************************************)
(* Model of the video ingestion step: lambda_handler iterating over S3     *)
(* events, process_s3_event (size gate, extension gate, download,         *)
(* metadata extraction, duration/validity checks, temp-file cleanup) and   *)
(* VideoProcessor.extract_metadata on an OpenCV decode session.            *)
(*                                                                         *)
(* Strings that the code inspects (object keys, paths, correlation ids)    *)
(* are sequences of one-character strings.  Durations are kept in          *)
(* hundredths of a second (the resolution of round(x, 2)); the frame rate  *)
(* a session reports is kept in thousandths of a frame per second.         *)
(***************************************************************************)
EXTENDS Integers, Sequences, FiniteSets

VARIABLES
    conc,             \* two invocations sharing the temp directory
    batch,            \* one BatchProcessor.process_directory call
    quality,          \* the derived metrics of get_video_quality_info
    fourcc_call,      \* one call of _fourcc_to_string
    sample,           \* one call of extract_sample_frames
    stages,           \* the stages started for the current S3 event or file
    entry,            \* the entry point main() runs: "lambda" or "local"
    recCount,         \* SQS records started so far in this invocation
    record,           \* the SQS record being processed
    eventsLeft,       \* S3 events of the record not yet processed
    completed,        \* S3 events whose process_s3_event returned
    result,           \* the result returned by the entry point
    correlation_id,   \* context.aws_request_id / generate_correlation_id()
    pc,               \* position of the invocation
    evCount,          \* S3 events started so far in this invocation
    s3_event,         \* the S3 event being processed: [key, size]; under
                      \* the local entry, video_path and os.path.getsize
    env,              \* what the collaborators will do for this event
    files,            \* local paths that exist in the temp directory
    filesAtStart,     \* files when process_s3_event was entered
    downloadCalls,    \* calls of S3Client.download_file for this event
    cleanupRuns,      \* runs of a temp-file cleanup block for this event
    removeFailed,     \* os.remove raised during this event
    cap,              \* the decode session of this event
    metadata,         \* the record built by extract_metadata
    video_metadata,   \* the record returned by validate_and_extract_metadata
    err,              \* the exception in flight, "none" when there is none
    statusCode        \* statusCode returned by lambda_handler, 0 before

vars == <<conc, batch, quality, fourcc_call, sample, stages, entry, recCount, record, eventsLeft, completed, result,
          correlation_id, pc, evCount, s3_event, env, files, filesAtStart,
          downloadCalls, cleanupRuns, removeFailed, cap, metadata,
          video_metadata, err, statusCode>>

----------------------------------------------------------------------------
(* Bounds and program constants *)

MaxEvents == 2
MaxRecords == 2
MaxFiles == 4
MaxFrames == 5
MaxNumFrames == 4

\* BatchProcessor.__init__: the default max_workers
max_workers == 3

MAX_VIDEO_SIZE_MB == 500
MIN_DURATION_SECONDS == 10
MAX_DURATION_SECONDS == 300
frames_to_test == 5

SUPPORTED_VIDEO_FORMATS ==
    << <<".", "m", "p", "4">>, <<".", "m", "o", "v">>, <<".", "a", "v", "i">> >>

----------------------------------------------------------------------------
(* Strings *)

UpperChars == <<"A","B","C","D","E","F","G","H","I","J","K","L","M",
                "N","O","P","Q","R","S","T","U","V","W","X","Y","Z">>
LowerChars == <<"a","b","c","d","e","f","g","h","i","j","k","l","m",
                "n","o","p","q","r","s","t","u","v","w","x","y","z">>

LowerChar(c) ==
    IF \E i \in 1..Len(UpperChars) : UpperChars[i] = c
    THEN LowerChars[CHOOSE i \in 1..Len(UpperChars) : UpperChars[i] = c]
    ELSE c

\* str.lower()
Lower(s) == [i \in 1..Len(s) |-> LowerChar(s[i])]

\* str.endswith(suffix)
EndsWith(s, suffix) ==
    /\ Len(suffix) <= Len(s)
    /\ SubSeq(s, Len(s) - Len(suffix) + 1, Len(s)) = suffix

\* str.find of a substring, as a predicate
Contains(s, sub) ==
    \E i \in 1..(Len(s) - Len(sub) + 1) : SubSeq(s, i, i + Len(sub) - 1) = sub

\* os.path.basename: what follows the last "/"
Basename(p) ==
    IF \E i \in 1..Len(p) : p[i] = "/"
    THEN LET last == CHOOSE i \in 1..Len(p) :
                        /\ p[i] = "/"
                        /\ \A j \in (i + 1)..Len(p) : p[j] # "/"
         IN SubSeq(p, last + 1, Len(p))
    ELSE p

\* round(n / d, 0) for d > 0, ties to even
RoundHalfEven(n, d) ==
    LET q == n \div d
        r == n % d
    IN IF 2 * r < d THEN q
       ELSE IF 2 * r > d THEN q + 1
       ELSE IF q % 2 = 0 THEN q ELSE q + 1

----------------------------------------------------------------------------
(* Inputs *)

DotMp4 == <<".", "m", "p", "4">>

Keys ==
    { <<"a", ".", "m", "p", "4">>,
      <<"A", ".", "M", "P", "4">>,
      <<"d", "/", "a", ".", "m", "p", "4">>,
      <<"c", "l", "i", "p", ".", "m", "o", "v">>,
      <<"b", ".", "a", "v", "i">>,
      <<"a", ".", "m", "p", "4", ".", "t", "x", "t">>,
      <<"m", "p", "4">> }

\* 1000000 is the size of create_mock_sqs_event; 524288000 is 500 MB exactly
Sizes == {1000000, 524288000, 524288001, 600000000}

CorrelationIds == { <<"r", "1">>, <<"r", "2">> }

\* The file behind a decode session: what the session will report.
\* decodable: how many leading frames decode.  probeRaises / raiseAt: a
\* session operation of the readability probe raises, and which one (the
\* raiseAt-th operation the probe performs; 0 when none does).
OpenedVideos ==
    [opened : {TRUE}, fps : {0, 30000},
     frame_count : {-1, 0, 299, 300, 360, 9000, 9001},
     width : {640}, height : {480}, decodable : {0, 1, 5},
     propsRaise : {FALSE}, probeRaises : {FALSE}, raiseAt : {0}]

OddVideos ==
    { [opened |-> FALSE, fps |-> 0, frame_count |-> 0, width |-> 0, height |-> 0,
       decodable |-> 0, propsRaise |-> FALSE, probeRaises |-> FALSE,
       raiseAt |-> 0],
      [opened |-> TRUE, fps |-> 29970, frame_count |-> 360, width |-> 1920,
       height |-> 1080, decodable |-> 7, propsRaise |-> FALSE, probeRaises |-> FALSE,
       raiseAt |-> 0],
      [opened |-> TRUE, fps |-> 30000, frame_count |-> 360, width |-> -1,
       height |-> -1, decodable |-> 5, propsRaise |-> FALSE, probeRaises |-> FALSE,
       raiseAt |-> 0],
      [opened |-> TRUE, fps |-> 30000, frame_count |-> 360, width |-> 0,
       height |-> 0, decodable |-> 5, propsRaise |-> FALSE, probeRaises |-> FALSE,
       raiseAt |-> 0],
      [opened |-> TRUE, fps |-> 30000, frame_count |-> 360, width |-> 640,
       height |-> 480, decodable |-> 5, propsRaise |-> TRUE, probeRaises |-> FALSE,
       raiseAt |-> 0],
      [opened |-> TRUE, fps |-> 30000, frame_count |-> 360, width |-> 640,
       height |-> 480, decodable |-> 5, propsRaise |-> FALSE, probeRaises |-> TRUE,
       raiseAt |-> 1],
      [opened |-> TRUE, fps |-> 30000, frame_count |-> 360, width |-> 640,
       height |-> 480, decodable |-> 5, propsRaise |-> FALSE, probeRaises |-> TRUE,
       raiseAt |-> 3],
      [opened |-> TRUE, fps |-> 30000, frame_count |-> 360, width |-> 640,
       height |-> 480, decodable |-> 5, propsRaise |-> FALSE, probeRaises |-> TRUE,
       raiseAt |-> 7] }

Videos == OpenedVideos \cup OddVideos

NoVideo == [opened |-> FALSE, fps |-> 0, frame_count |-> 0, width |-> 0, height |-> 0,
            decodable |-> 0, propsRaise |-> FALSE, probeRaises |-> FALSE,
       raiseAt |-> 0]

\* What the object store does on download_file: "ok", a ClientError code, an
\* exception that is no ClientError, or a call that returns leaving no file.
\* partial: a failed transfer leaves a partially written local file.
Envs ==
    [download : {"ok"}, partial : {FALSE}, video : Videos]
    \cup [download : {"NoSuchKey", "NoSuchBucket", "AccessDenied", "NoFile"},
          partial : {FALSE}, video : {NoVideo}]
    \cup [download : {"OtherClientError", "Unexpected"},
          partial : BOOLEAN, video : {NoVideo}]

\* An SQS record: what record['body'] is, what the 'Message' field of the SNS
\* message is, and how many S3 events the message lists.  "missing": the
\* field is absent; "not_json": a string json.loads rejects; "non_object":
\* JSON that is no object (a list, a string, a number, null); "object": a
\* JSON object.
BadShapes == {"missing", "not_json", "non_object"}

RecordShapes(maxEvents) ==
    [body : BadShapes, message : {"object"}, nEvents : {0}]
    \cup [body : {"object"}, message : BadShapes, nEvents : {0}]
    \cup [body : {"object"}, message : {"object"}, nEvents : 0..maxEvents]

NoRecord == [body |-> "object", message |-> "object", nEvents |-> 0]
NoResult == [statusCode |-> 0, correlation_id |-> <<>>, has_metadata |-> FALSE,
             has_error |-> FALSE]

\* Correlation identifiers and object keys of two concurrent invocations:
\* context.aws_request_id, or the --correlation-id argument of main
ConcurrentIds == { <<"r">>, <<"r", "1">>, <<"r", "_", "1">> }

ConcurrentKeys ==
    { <<"a", ".", "m", "p", "4">>,
      <<"1", "_", "a", ".", "m", "p", "4">>,
      <<"d", "/", "a", ".", "m", "p", "4">> }

NoConc ==
    [inv |-> [i \in 1..2 |-> [cid |-> <<>>, key |-> <<>>, pc |-> "none"]],
     tmp |-> {}, clobbered |-> FALSE]

NoQuality ==
    [pc |-> "none", duration_cs |-> 0, file_size_bytes |-> 0,
     file_size_mb_c |-> 0, file_efficiency_c |-> 0, estimated_bitrate_kbps |-> 0]

NoFourcc == [pc |-> "none", fourcc |-> 0, codec |-> <<>>]

NoSample ==
    [pc |-> "none", exists |-> FALSE, opened |-> FALSE, total_frames |-> 0,
     num_frames |-> 0, decodable |-> 0, todo |-> <<>>, reads |-> <<>>,
     frames |-> 0, released |-> FALSE, raised |-> "none"]

NoBatch ==
    [n |-> 0, task |-> <<>>, err |-> <<>>, statusCode |-> <<>>,
     completion |-> <<>>,
     results |-> <<>>, pc |-> "none"]

NoEvent == [key |-> <<>>, size |-> 0]
NoEnv == [download |-> "ok", partial |-> FALSE, video |-> NoVideo]
\* position: the frame the session's next read decodes
NoCap ==
    [status |-> "none", releases |-> 0, opsAfterRelease |-> FALSE, ops |-> <<>>,
     position |-> 0]

NewCap ==
    [status |-> "open", releases |-> 0, opsAfterRelease |-> FALSE, ops |-> <<>>,
     position |-> 0]

NoMeta == [present |-> FALSE]

----------------------------------------------------------------------------
(* The pure parts of the code *)

\* validate_file_size: size_mb = size_bytes / 1024 / 1024 (true division);
\* size_mb > MAX  <=>  size_bytes > MAX * 1024 * 1024
FileTooLargeFloorDiv(size_bytes) ==
    (size_bytes \div 1024) \div 1024 > MAX_VIDEO_SIZE_MB

FileTooLarge(size_bytes) ==
    size_bytes > MAX_VIDEO_SIZE_MB * 1024 * 1024

\* validate_file_extension: object_key.lower().endswith('.mp4')
ExtensionOkContains(object_key) == Contains(Lower(object_key), DotMp4)

ExtensionOk(object_key) == EndsWith(Lower(object_key), DotMp4)

\* download_video_file: os.path.join("/tmp", f"{correlation_id}_{filename}")
LocalPath(cid, object_key) ==
    <<"/", "t", "m", "p", "/">> \o cid \o <<"_">> \o Basename(object_key)

\* S3Client.download_file: the exception raised for each outcome
S3Error(outcome) ==
    CASE outcome = "NoSuchKey" -> "not_found"
      [] outcome = "NoSuchBucket" -> "not_found"
      [] outcome = "AccessDenied" -> "access_denied"
      [] outcome = "OtherClientError" -> "s3_failed"
      [] outcome = "Unexpected" -> "s3_unexpected"
      [] OTHER -> "none"

\* download_video_file: the exception of the try block, given the outcome of
\* S3Client.download_file and whether the target exists after the call
DownloadErrorNoExistsCheck(outcome, present) == S3Error(outcome)

DownloadError(outcome, present) ==
    IF S3Error(outcome) # "none" THEN S3Error(outcome)
    ELSE IF ~present THEN "download_missing"
    ELSE "none"

\* _extract_basic_properties: duration in hundredths of a second
DurationCs(frame_count, fps) ==
    IF fps > 0 THEN RoundHalfEven(frame_count * 100000, fps) ELSE 0

\* _extract_basic_properties: raises, or builds the record (fps in hundredths)
PropsRaiseOnZeroFps(v) == v.propsRaise \/ v.fps = 0

PropsRaise(v) == v.propsRaise

BasicProperties(v) ==
    [present |-> TRUE,
     duration_cs |-> DurationCs(v.frame_count, v.fps),
     fps |-> RoundHalfEven(v.fps, 10),
     frame_count |-> v.frame_count,
     width |-> v.width,
     height |-> v.height,
     is_valid_video |-> FALSE]

\* _validate_video_readability: frames read by at most frames_to_test reads
\* that stop at the first failed read
RECURSIVE FramesRead(_, _)
FramesRead(decodable, i) ==
    IF i >= frames_to_test THEN 0
    ELSE IF i < decodable THEN 1 + FramesRead(decodable, i + 1)
    ELSE 0

ReadabilityAllFrames(v) ==
    IF v.probeRaises THEN FALSE ELSE FramesRead(v.decodable, 0) = frames_to_test

Readability(v) ==
    IF v.probeRaises THEN FALSE ELSE FramesRead(v.decodable, 0) > 0

\* _validate_video_readability: the session operations of the probe when
\* none raises: seek to 0, the reads up to and including the first failed
\* one (at most frames_to_test), seek to 0
ProbeProtocolNoBreak(v) ==
    <<"set0">> \o [i \in 1..frames_to_test |-> "read"] \o <<"set0">>

ProbeProtocol(v) ==
    LET reads == IF v.decodable >= frames_to_test THEN frames_to_test
                 ELSE v.decodable + 1
    IN <<"set0">> \o [i \in 1..reads |-> "read"] \o <<"set0">>

\* the operations the probe performs: cut short by the one that raises
ProbeOps(v) ==
    IF v.probeRaises /\ v.raiseAt \in 1..Len(ProbeProtocol(v))
    THEN SubSeq(ProbeProtocol(v), 1, v.raiseAt)
    ELSE ProbeProtocol(v)

\* _validate_video_readability: the frames the probe's loop decoded (reads
\* that returned ret = True), also when a later session operation raised
FramesDecoded(v) ==
    LET n == FramesRead(v.decodable, 0)
    IN IF v.probeRaises /\ v.raiseAt \in 1..Len(ProbeProtocol(v))
       THEN IF v.raiseAt - 2 < 0 THEN 0
            ELSE IF v.raiseAt - 2 < n THEN v.raiseAt - 2 ELSE n
       ELSE n

\* the session position when the probe returns: frame 0 after the last seek;
\* when an operation raised, the except clause returns without a seek and
\* the position is the one the completed operations left
ProbePosition(v) ==
    IF v.probeRaises /\ v.raiseAt \in 1..Len(ProbeProtocol(v))
    THEN FramesDecoded(v)
    ELSE 0

\* _extract_basic_properties: the property reads (fps, frame count, width,
\* height, then fourcc after os.path.getsize)
PropsOps(v) ==
    IF v.propsRaise THEN <<"get", "get", "get", "get">>
    ELSE <<"get", "get", "get", "get", "get">>

\* extract_metadata: if not cap.isOpened()
IsOpenedIgnored(v) == TRUE

IsOpened(v) == v.opened

\* validate_and_extract_metadata: the checks after extraction
\* validate_and_extract_metadata: the checks it starts, in order
PostCheckStages(m) ==
    IF m.duration_cs < MIN_DURATION_SECONDS * 100
       \/ m.duration_cs > MAX_DURATION_SECONDS * 100
    THEN <<"duration">>
    ELSE <<"duration", "validity">>

PostChecksNoMax(m) ==
    IF m.duration_cs < MIN_DURATION_SECONDS * 100 THEN "too_short"
    ELSE IF ~m.is_valid_video THEN "invalid_or_corrupted"
    ELSE "none"

PostChecksValidityFirst(m) ==
    IF ~m.is_valid_video THEN "invalid_or_corrupted"
    ELSE IF m.duration_cs < MIN_DURATION_SECONDS * 100 THEN "too_short"
    ELSE IF m.duration_cs > MAX_DURATION_SECONDS * 100 THEN "too_long"
    ELSE "none"

PostChecks(m) ==
    IF m.duration_cs < MIN_DURATION_SECONDS * 100 THEN "too_short"
    ELSE IF m.duration_cs > MAX_DURATION_SECONDS * 100 THEN "too_long"
    ELSE IF ~m.is_valid_video THEN "invalid_or_corrupted"
    ELSE "none"

\* parse_sns_message: json.loads(record['body']), then sns_message.get;
\* only JSONDecodeError and KeyError are turned into ValueError
ParseSnsResult(body) ==
    CASE body \in {"missing", "not_json"} -> "sns_parse_error"
      [] body = "non_object" -> "AttributeError"
      [] OTHER -> "none"

\* parse_s3_events: json.loads(sns_message['Message']), then s3_message.get
ParseS3Result(message) ==
    CASE message \in {"missing", "not_json"} -> "s3_parse_error"
      [] message = "non_object" -> "AttributeError"
      [] OTHER -> "none"

\* lambda_handler: the success result
LambdaResult(cid) ==
    [statusCode |-> 200, correlation_id |-> cid, has_metadata |-> FALSE,
     has_error |-> FALSE]

\* process_local_video_file: the result returned from the try or the except
LocalResultNoId(cid, e, m) ==
    IF e = "none"
    THEN [statusCode |-> 200, correlation_id |-> <<>>, has_metadata |-> m.present,
          has_error |-> FALSE]
    ELSE [statusCode |-> 500, correlation_id |-> <<>>, has_metadata |-> FALSE,
          has_error |-> TRUE]

LocalResultBoth(cid, e, m) ==
    [statusCode |-> IF e = "none" THEN 200 ELSE 500, correlation_id |-> cid,
     has_metadata |-> TRUE, has_error |-> TRUE]

LocalResult(cid, e, m) ==
    IF e = "none"
    THEN [statusCode |-> 200, correlation_id |-> cid, has_metadata |-> m.present,
          has_error |-> FALSE]
    ELSE [statusCode |-> 500, correlation_id |-> cid, has_metadata |-> FALSE,
          has_error |-> TRUE]

\* where an exception goes that leaves the gates or the download:
\* lambda_handler re-raises it, process_local_video_file catches it
ExceptionExit == IF entry = "local" THEN "local_return" ELSE "raised"

\* what follows validate_and_extract_metadata, returning or raising: the
\* finally of process_s3_event, or the return of process_local_video_file
AfterValidationAlwaysCleanup == "cleanup"

AfterValidation == IF entry = "local" THEN "local_return" ELSE "cleanup"

\* lambda_handler is between records: at its start, or the S3 events of the
\* record are used up
HandlerIdleAfterFailure ==
    /\ entry = "lambda"
    /\ \/ pc \in {"handler", "raised"}
       \/ pc \in {"s3_loop", "s3_done"} /\ eventsLeft = 0

HandlerIdleMidRecord ==
    /\ entry = "lambda"
    /\ pc \in {"handler", "s3_loop", "s3_done"}

HandlerIdle ==
    /\ entry = "lambda"
    /\ \/ pc = "handler"
       \/ pc \in {"s3_loop", "s3_done"} /\ eventsLeft = 0

\* where control goes when download_video_file raises: the call is outside
\* the try/finally of process_s3_event
AfterDownloadErrorInsideTry == "cleanup"

AfterDownloadErrorRetry == "download"

AfterDownloadError == ExceptionExit

\* where control goes when _extract_basic_properties raises: the call is
\* inside the try/finally of extract_metadata
AfterPropsErrorSkipsFinally == AfterValidation

AfterPropsError == "release"

\* where control goes when isOpened() is false: the raise is inside the
\* try/finally of extract_metadata
AfterCannotOpenOutsideTry == "cleanup"

AfterCannotOpen == "release"

\* cleanup_file: the file is removed when it exists and os.remove succeeds
RemovedOnlyOnSuccess(path, removeOk) ==
    path \in files /\ removeOk /\ err = "none"

Removed(path, removeOk) == path \in files /\ removeOk

SessionOp(c) ==
    [c EXCEPT !.opsAfterRelease = @ \/ (c.releases > 0)]

\* the session after the operations o
WithOps(c, o) == [SessionOp(c) EXCEPT !.ops = @ \o o]

----------------------------------------------------------------------------
(* State machine *)

\* the local file: the download target, or video_path under the local entry
path ==
    IF entry = "local" THEN s3_event.key
    ELSE LocalPath(correlation_id, s3_event.key)

Init ==
    /\ stages = <<>>
    /\ conc = NoConc
    /\ batch = NoBatch
    /\ quality = NoQuality
    /\ fourcc_call = NoFourcc
    /\ sample = NoSample
    /\ entry \in {"lambda", "local"}
    /\ recCount = 0
    /\ record = NoRecord
    /\ eventsLeft = 0
    /\ completed = 0
    /\ result = NoResult
    /\ correlation_id \in CorrelationIds
    /\ pc = "handler"
    /\ evCount = 0
    /\ s3_event = NoEvent
    /\ env = NoEnv
    /\ files = {}
    /\ filesAtStart = {}
    /\ downloadCalls = 0
    /\ cleanupRuns = 0
    /\ removeFailed = FALSE
    /\ cap = NoCap
    /\ metadata = NoMeta
    /\ video_metadata = NoMeta
    /\ err = "none"
    /\ statusCode = 0

\* lambda_handler: the loop takes the next SQS record
StartRecord ==
    /\ HandlerIdle
    /\ recCount < MaxRecords
    /\ recCount' = recCount + 1
    /\ record' \in RecordShapes(MaxEvents - evCount)
    /\ pc' = "parse_sns"
    /\ s3_event' = NoEvent
    /\ env' = NoEnv
    /\ downloadCalls' = 0
    /\ cleanupRuns' = 0
    /\ removeFailed' = FALSE
    /\ cap' = NoCap
    /\ metadata' = NoMeta
    /\ video_metadata' = NoMeta
    /\ stages' = <<>>
    /\ UNCHANGED <<conc, batch, quality, fourcc_call, sample>>
    /\ UNCHANGED <<entry, eventsLeft, completed, result, correlation_id, evCount,
                   files, filesAtStart, err, statusCode>>

\* process_sqs_record: parse_sns_message
ParseSnsMessage ==
    /\ pc = "parse_sns"
    /\ err' = ParseSnsResult(record.body)
    /\ pc' = IF ParseSnsResult(record.body) = "none" THEN "parse_s3" ELSE "raised"
    /\ UNCHANGED stages
    /\ UNCHANGED <<conc, batch, quality, fourcc_call, sample>>
    /\ UNCHANGED <<entry, recCount, record, eventsLeft, completed, result,
                   correlation_id, evCount, s3_event, env, files, filesAtStart,
                   downloadCalls, cleanupRuns, removeFailed, cap, metadata,
                   video_metadata, statusCode>>

\* process_sqs_record: parse_s3_events
ParseS3Events ==
    /\ pc = "parse_s3"
    /\ err' = ParseS3Result(record.message)
    /\ pc' = IF ParseS3Result(record.message) = "none" THEN "s3_loop" ELSE "raised"
    /\ eventsLeft' = IF ParseS3Result(record.message) = "none" THEN record.nEvents
                     ELSE eventsLeft
    /\ UNCHANGED stages
    /\ UNCHANGED <<conc, batch, quality, fourcc_call, sample>>
    /\ UNCHANGED <<entry, recCount, record, completed, result,
                   correlation_id, evCount, s3_event, env, files, filesAtStart,
                   downloadCalls, cleanupRuns, removeFailed, cap, metadata,
                   video_metadata, statusCode>>

\* process_sqs_record: the loop hands the next S3 event to process_s3_event
NextS3Event ==
    /\ pc \in {"s3_loop", "s3_done"}
    /\ eventsLeft > 0
    /\ eventsLeft' = eventsLeft - 1
    /\ \E k \in Keys, s \in Sizes, e \in Envs :
          /\ s3_event' = [key |-> k, size |-> s]
          /\ env' = e
    /\ evCount' = evCount + 1
    /\ pc' = "size"
    /\ filesAtStart' = files
    /\ downloadCalls' = 0
    /\ cleanupRuns' = 0
    /\ removeFailed' = FALSE
    /\ cap' = NoCap
    /\ metadata' = NoMeta
    /\ video_metadata' = NoMeta
    /\ stages' = <<>>
    /\ UNCHANGED <<conc, batch, quality, fourcc_call, sample>>
    /\ UNCHANGED <<entry, recCount, record, completed, result,
                   correlation_id, files, err, statusCode>>

\* lambda_handler: every record was processed
LambdaReturn ==
    /\ HandlerIdle
    /\ pc' = "returned"
    /\ result' = LambdaResult(correlation_id)
    /\ statusCode' = LambdaResult(correlation_id).statusCode
    /\ UNCHANGED stages
    /\ UNCHANGED <<conc, batch, quality, fourcc_call, sample>>
    /\ UNCHANGED <<entry, recCount, record, eventsLeft, completed,
                   correlation_id, evCount, s3_event, env, files, filesAtStart,
                   downloadCalls, cleanupRuns, removeFailed, cap, metadata,
                   video_metadata, err>>

ValidateFileSize ==
    /\ pc = "size"
    /\ IF FileTooLarge(s3_event.size)
       THEN /\ err' = "too_large"
            /\ pc' = ExceptionExit
       ELSE /\ err' = err
            /\ pc' = "ext"
    /\ stages' = stages \o <<"size">>
    /\ UNCHANGED <<conc, batch, quality, fourcc_call, sample>>
    /\ UNCHANGED <<entry, recCount, record, eventsLeft, completed, result,
                   correlation_id, evCount, s3_event, env, files, filesAtStart,
                   downloadCalls, cleanupRuns, removeFailed, cap, metadata,
                   video_metadata, statusCode>>

ValidateFileExtension ==
    /\ pc = "ext"
    /\ IF ~ExtensionOk(s3_event.key)
       THEN /\ err' = "unsupported_format"
            /\ pc' = ExceptionExit
       ELSE /\ err' = err
            /\ pc' = IF entry = "local" THEN "extract" ELSE "download"
    /\ stages' = stages \o <<"extension">>
    /\ UNCHANGED <<conc, batch, quality, fourcc_call, sample>>
    /\ UNCHANGED <<entry, recCount, record, eventsLeft, completed, result,
                   correlation_id, evCount, s3_event, env, files, filesAtStart,
                   downloadCalls, cleanupRuns, removeFailed, cap, metadata,
                   video_metadata, statusCode>>

\* download_video_file with S3Client.download_file
DownloadVideoFile ==
    /\ pc = "download"
    /\ downloadCalls' = downloadCalls + 1
    /\ LET written == IF env.download = "ok" \/ env.partial
                      THEN files \cup {path} ELSE files
           error == DownloadError(env.download, path \in written)
       IN IF error = "none"
          THEN /\ files' = written
               /\ pc' = "extract"
               /\ UNCHANGED <<err, cleanupRuns, removeFailed>>
          ELSE \* except: remove the partial download if it exists, re-raise
               /\ cleanupRuns' = cleanupRuns + 1
               /\ pc' = AfterDownloadError
               /\ IF path \in written
                  THEN \E removeOk \in BOOLEAN :
                          IF removeOk
                          THEN /\ files' = written \ {path}
                               /\ err' = error
                               /\ UNCHANGED removeFailed
                          ELSE /\ files' = written
                               /\ err' = "remove_error"
                               /\ removeFailed' = TRUE
                  ELSE /\ files' = written
                       /\ err' = error
                       /\ UNCHANGED removeFailed
    /\ stages' = stages \o <<"transfer">>
    /\ UNCHANGED <<conc, batch, quality, fourcc_call, sample>>
    /\ UNCHANGED <<entry, recCount, record, eventsLeft, completed, result,
                   correlation_id, evCount, s3_event, env, filesAtStart, cap,
                   metadata, video_metadata, statusCode>>

\* extract_metadata: existence check, cv2.VideoCapture, isOpened
ExtractOpen ==
    /\ pc = "extract"
    /\ IF path \notin files
       THEN /\ err' = "file_not_found"
            /\ pc' = AfterValidation
            /\ UNCHANGED cap
       ELSE IF ~IsOpened(env.video)
       THEN /\ err' = "cannot_open"
            /\ pc' = AfterCannotOpen
            /\ cap' = WithOps(NewCap, <<"isOpened">>)
       ELSE /\ err' = err
            /\ pc' = "props"
            /\ cap' = WithOps(NewCap, <<"isOpened">>)
    /\ stages' = stages \o <<"extraction">>
    /\ UNCHANGED <<conc, batch, quality, fourcc_call, sample>>
    /\ UNCHANGED <<entry, recCount, record, eventsLeft, completed, result,
                   correlation_id, evCount, s3_event, env, files, filesAtStart,
                   downloadCalls, cleanupRuns, removeFailed, metadata,
                   video_metadata, statusCode>>

\* extract_metadata: _extract_basic_properties
ExtractProps ==
    /\ pc = "props"
    /\ cap' = WithOps(cap, PropsOps(env.video))
    /\ IF PropsRaise(env.video)
       THEN /\ err' = "extraction_error"
            /\ metadata' = metadata
       ELSE /\ err' = err
            /\ metadata' = BasicProperties(env.video)
    /\ pc' = IF PropsRaise(env.video) THEN AfterPropsError ELSE "probe"
    /\ UNCHANGED stages
    /\ UNCHANGED <<conc, batch, quality, fourcc_call, sample>>
    /\ UNCHANGED <<entry, recCount, record, eventsLeft, completed, result,
                   correlation_id, evCount, s3_event, env, files, filesAtStart,
                   downloadCalls, cleanupRuns, removeFailed, video_metadata,
                   statusCode>>

\* extract_metadata: _validate_video_readability
ExtractProbe ==
    /\ pc = "probe"
    /\ cap' = [WithOps(cap, ProbeOps(env.video)) EXCEPT
                  !.position = ProbePosition(env.video)]
    /\ metadata' = [metadata EXCEPT !.is_valid_video = Readability(env.video)]
    /\ pc' = "release"
    /\ UNCHANGED stages
    /\ UNCHANGED <<conc, batch, quality, fourcc_call, sample>>
    /\ UNCHANGED <<entry, recCount, record, eventsLeft, completed, result,
                   correlation_id, evCount, s3_event, env, files, filesAtStart,
                   downloadCalls, cleanupRuns, removeFailed, video_metadata,
                   err, statusCode>>

\* extract_metadata: finally cap.release()
ExtractRelease ==
    /\ pc = "release"
    /\ cap' = [cap EXCEPT !.status = "released", !.releases = @ + 1,
                          !.ops = @ \o <<"release">>]
    /\ metadata' = IF err = "none" THEN metadata ELSE NoMeta
    /\ pc' = IF err = "none" THEN "validate" ELSE AfterValidation
    /\ UNCHANGED stages
    /\ UNCHANGED <<conc, batch, quality, fourcc_call, sample>>
    /\ UNCHANGED <<entry, recCount, record, eventsLeft, completed, result,
                   correlation_id, evCount, s3_event, env, files, filesAtStart,
                   downloadCalls, cleanupRuns, removeFailed, video_metadata,
                   err, statusCode>>

\* validate_and_extract_metadata: duration bounds, then the validity flag
ValidateMetadata ==
    /\ pc = "validate"
    /\ err' = PostChecks(metadata)
    /\ video_metadata' = IF PostChecks(metadata) = "none" THEN metadata ELSE NoMeta
    /\ pc' = AfterValidation
    /\ stages' = stages \o PostCheckStages(metadata)
    /\ UNCHANGED <<conc, batch, quality, fourcc_call, sample>>
    /\ UNCHANGED <<entry, recCount, record, eventsLeft, completed, result,
                   correlation_id, evCount, s3_event, env, files, filesAtStart,
                   downloadCalls, cleanupRuns, removeFailed, cap, metadata,
                   statusCode>>

\* process_s3_event: finally cleanup_file; a removal error is swallowed
CleanupFile ==
    /\ pc = "cleanup"
    /\ cleanupRuns' = cleanupRuns + 1
    /\ \E removeOk \in BOOLEAN :
          /\ files' = IF Removed(path, removeOk) THEN files \ {path} ELSE files
          /\ removeFailed' = (removeFailed \/ (path \in files /\ ~removeOk))
    /\ pc' = IF err = "none" THEN "s3_done" ELSE "raised"
    /\ completed' = IF err = "none" THEN completed + 1 ELSE completed
    /\ UNCHANGED stages
    /\ UNCHANGED <<conc, batch, quality, fourcc_call, sample>>
    /\ UNCHANGED <<entry, recCount, record, eventsLeft, result,
                   correlation_id, evCount, s3_event, env, filesAtStart,
                   downloadCalls, cap, metadata, video_metadata, err, statusCode>>

\* process_local_video_file: existence check and os.path.getsize
LocalStart ==
    /\ entry = "local"
    /\ pc = "handler"
    /\ \E p \in Keys, exists \in BOOLEAN, s \in Sizes, v \in Videos :
          /\ s3_event' = [key |-> p, size |-> s]
          /\ env' = [download |-> "ok", partial |-> FALSE, video |-> v]
          /\ files' = IF exists THEN {p} ELSE {}
          /\ filesAtStart' = IF exists THEN {p} ELSE {}
          /\ err' = IF exists THEN err ELSE "file_not_found"
          /\ pc' = IF exists THEN "size" ELSE "local_return"
    /\ stages' = <<>>
    /\ UNCHANGED <<conc, batch, quality, fourcc_call, sample>>
    /\ UNCHANGED <<entry, recCount, record, eventsLeft, completed, result,
                   correlation_id, evCount, downloadCalls, cleanupRuns,
                   removeFailed, cap, metadata, video_metadata, statusCode>>

\* process_local_video_file: return from the try, or from the except
LocalReturn ==
    /\ pc = "local_return"
    /\ result' = LocalResult(correlation_id, err, video_metadata)
    /\ statusCode' = LocalResult(correlation_id, err, video_metadata).statusCode
    /\ pc' = "returned"
    /\ UNCHANGED stages
    /\ UNCHANGED <<conc, batch, quality, fourcc_call, sample>>
    /\ UNCHANGED <<entry, recCount, record, eventsLeft, completed,
                   correlation_id, evCount, s3_event, env, files, filesAtStart,
                   downloadCalls, cleanupRuns, removeFailed, cap, metadata,
                   video_metadata, err>>

Next ==
    \/ StartRecord
    \/ ParseSnsMessage
    \/ ParseS3Events
    \/ LocalStart
    \/ LocalReturn
    \/ NextS3Event
    \/ LambdaReturn
    \/ ValidateFileSize
    \/ ValidateFileExtension
    \/ DownloadVideoFile
    \/ ExtractOpen
    \/ ExtractProps
    \/ ExtractProbe
    \/ ExtractRelease
    \/ ValidateMetadata
    \/ CleanupFile

Spec == Init /\ [][Next]_vars

----------------------------------------------------------------------------
(* Two invocations of lambda_handler sharing /tmp *)

\* no invocation of the single-invocation machine is in progress
Dormant ==
    /\ stages = <<>>
    /\ entry = "lambda"
    /\ recCount = 0
    /\ record = NoRecord
    /\ eventsLeft = 0
    /\ completed = 0
    /\ result = NoResult
    /\ correlation_id = <<>>
    /\ pc = "none"
    /\ evCount = 0
    /\ s3_event = NoEvent
    /\ env = NoEnv
    /\ files = {}
    /\ filesAtStart = {}
    /\ downloadCalls = 0
    /\ cleanupRuns = 0
    /\ removeFailed = FALSE
    /\ cap = NoCap
    /\ metadata = NoMeta
    /\ video_metadata = NoMeta
    /\ err = "none"
    /\ statusCode = 0

mainVars ==
    <<stages, entry, recCount, record, eventsLeft, completed, result, correlation_id,
      pc, evCount, s3_event, env, files, filesAtStart, downloadCalls,
      cleanupRuns, removeFailed, cap, metadata, video_metadata, err, statusCode>>

\* download_video_file: local_file_path of invocation i
ConcPath(i) == LocalPath(conc.inv[i].cid, conc.inv[i].key)

\* invocation j has downloaded its file and not yet cleaned it up
InUse(j) == conc.inv[j].pc \in {"extract", "cleanup"}

\* invocation i writes or removes a file the other invocation has in use
Clobbers(i) == InUse(3 - i) /\ ConcPath(3 - i) = ConcPath(i)

InitConcurrent ==
    /\ Dormant
    /\ batch = NoBatch
    /\ quality = NoQuality
    /\ fourcc_call = NoFourcc
    /\ sample = NoSample
    /\ \E c1, c2 \in ConcurrentIds, k1, k2 \in ConcurrentKeys :
          /\ c1 # c2
          /\ conc = [inv |-> <<[cid |-> c1, key |-> k1, pc |-> "download"],
                               [cid |-> c2, key |-> k2, pc |-> "download"]>>,
                     tmp |-> {}, clobbered |-> FALSE]

\* download_video_file of invocation i: the transfer writes the target; on an
\* error the except clause removes the target if it exists
ConcDownload ==
    \E i \in 1..2, ok \in BOOLEAN, removeOk \in BOOLEAN :
        /\ conc.inv[i].pc = "download"
        /\ conc' = [conc EXCEPT
                      !.inv[i].pc = IF ok THEN "extract" ELSE "raised",
                      !.tmp = IF ok THEN @ \cup {ConcPath(i)}
                              ELSE IF removeOk THEN @ \ {ConcPath(i)}
                              ELSE @,
                      !.clobbered = @ \/ (Clobbers(i) /\ (ok \/ removeOk))]
        /\ UNCHANGED <<batch, quality, fourcc_call, sample, mainVars>>

\* validate_and_extract_metadata of invocation i reads the file
ConcExtract ==
    \E i \in 1..2 :
        /\ conc.inv[i].pc = "extract"
        /\ conc' = [conc EXCEPT !.inv[i].pc = "cleanup"]
        /\ UNCHANGED <<batch, quality, fourcc_call, sample, mainVars>>

\* cleanup_file of invocation i
ConcCleanup ==
    \E i \in 1..2, removeOk \in BOOLEAN :
        /\ conc.inv[i].pc = "cleanup"
        /\ conc' = [conc EXCEPT
                      !.inv[i].pc = "done",
                      !.tmp = IF removeOk THEN @ \ {ConcPath(i)} ELSE @,
                      !.clobbered = @ \/ (Clobbers(i) /\ removeOk
                                          /\ ConcPath(i) \in conc.tmp)]
        /\ UNCHANGED <<batch, quality, fourcc_call, sample, mainVars>>

NextConcurrent ==
    \/ ConcDownload
    \/ ConcExtract
    \/ ConcCleanup

SpecConcurrent == InitConcurrent /\ [][NextConcurrent]_vars

----------------------------------------------------------------------------
(* BatchProcessor.process_directory *)

\* the results' source files, in the order of the result list
ResultOrder == [i \in 1..Len(batch.results) |-> batch.results[i].source_file]

Running == {i \in 1..batch.n : batch.task[i] = "running"}

\* what process_local_video_file caught in a worker: nothing, or an error
TaskErrors == {"none", "file_not_found", "too_short"}

InitBatch ==
    /\ Dormant
    /\ conc = NoConc
    /\ quality = NoQuality
    /\ fourcc_call = NoFourcc
    /\ sample = NoSample
    /\ \E n \in 0..MaxFiles :
          batch = [n |-> n, task |-> [i \in 1..n |-> "queued"],
                   err |-> [i \in 1..n |-> "none"],
                   statusCode |-> [i \in 1..n |-> 0], completion |-> <<>>,
                   results |-> <<>>, pc |-> IF n = 0 THEN "return" ELSE "collect"]

\* ThreadPoolExecutor: a free worker takes the oldest queued task
BatchStartTask ==
    \E i \in 1..batch.n :
        /\ batch.task[i] = "queued"
        /\ \A j \in 1..(i - 1) : batch.task[j] # "queued"
        /\ Cardinality(Running) < max_workers
        /\ batch' = [batch EXCEPT !.task[i] = "running"]
        /\ UNCHANGED <<conc, quality, fourcc_call, sample, mainVars>>

\* a worker's process_local_video_file returns its result: the file passes,
\* or one of its checks raises and the except clause builds the result
BatchFinishTask ==
    \E i \in 1..batch.n, e \in TaskErrors :
        /\ batch.task[i] = "running"
        /\ batch' = [batch EXCEPT
                       !.task[i] = "finished",
                       !.err[i] = e,
                       !.statusCode[i] = LocalResult(<<>>, e, NoMeta).statusCode,
                       !.completion = Append(@, i)]
        /\ UNCHANGED <<conc, quality, fourcc_call, sample, mainVars>>

\* the collection loop after a result was appended: it goes on to the next
\* future whatever the result's status code
AfterCollectStopOnFailure(k, code) ==
    IF k = batch.n \/ code = 500 THEN "return" ELSE "collect"

AfterCollect(k, code) == IF k = batch.n THEN "return" ELSE "collect"

\* for future in future_to_file: future.result() waits for the next future
\* in the order of the dict, the result is appended
BatchCollect ==
    LET k == Len(batch.results) + 1
    IN /\ batch.pc = "collect"
       /\ k <= batch.n
       /\ batch.task[k] = "finished"
       /\ batch' = [batch EXCEPT
                      !.results = Append(@, [source_file |-> k,
                                             statusCode |-> batch.statusCode[k]]),
                      !.pc = AfterCollect(k, batch.statusCode[k])]
       /\ UNCHANGED <<conc, quality, fourcc_call, sample, mainVars>>

\* process_directory returns the result list
BatchReturn ==
    /\ batch.pc = "return"
    /\ batch' = [batch EXCEPT !.pc = "returned"]
    /\ UNCHANGED <<conc, quality, fourcc_call, sample, mainVars>>

NextBatch ==
    \/ BatchStartTask
    \/ BatchFinishTask
    \/ BatchCollect
    \/ BatchReturn

SpecBatch == InitBatch /\ [][NextBatch]_vars

----------------------------------------------------------------------------
(* VideoProcessor.get_video_quality_info: the derived metrics *)

\* duration_seconds of a metadata record, in hundredths of a second (-3: a
\* frame count of -1 at 30 fps), and file_size_bytes
QualityDurations == {-3, 0, 1, 997, 1000, 1200, 30000}
QualitySizes == {0, 1, 1000000, 1048576, 15728640, 20000000}

\* _extract_basic_properties: file_size_mb, in hundredths of a MB
FileSizeMbC(file_size_bytes) == RoundHalfEven(file_size_bytes * 100, 1048576)

\* _calculate_file_efficiency, in hundredths of a MB per minute
CalculateFileEfficiencyC(m) ==
    IF m.duration_cs > 0
    THEN RoundHalfEven(m.file_size_mb_c * 6000, m.duration_cs)
    ELSE 0

\* _estimate_bitrate: int(file_size_bytes * 8 / duration_seconds / 1000)
EstimateBitrateRounded(m) ==
    IF m.duration_cs > 0
    THEN RoundHalfEven(m.file_size_bytes * 8, m.duration_cs * 10)
    ELSE 0

EstimateBitrate(m) ==
    IF m.duration_cs > 0
    THEN (m.file_size_bytes * 8) \div (m.duration_cs * 10)
    ELSE 0

quality_frame == <<conc, batch, fourcc_call, sample, mainVars>>

InitQuality ==
    /\ Dormant
    /\ conc = NoConc
    /\ batch = NoBatch
    /\ fourcc_call = NoFourcc
    /\ sample = NoSample
    /\ \E d \in QualityDurations, b \in QualitySizes :
          quality = [pc |-> "efficiency", duration_cs |-> d,
                     file_size_bytes |-> b, file_size_mb_c |-> FileSizeMbC(b),
                     file_efficiency_c |-> 0, estimated_bitrate_kbps |-> 0]

\* get_video_quality_info: 'file_efficiency'
CalculateFileEfficiency ==
    /\ quality.pc = "efficiency"
    /\ quality' = [quality EXCEPT
                     !.file_efficiency_c = CalculateFileEfficiencyC(quality),
                     !.pc = "bitrate"]
    /\ UNCHANGED quality_frame

\* get_video_quality_info: 'estimated_bitrate_kbps'
EstimateBitrateKbps ==
    /\ quality.pc = "bitrate"
    /\ quality' = [quality EXCEPT
                     !.estimated_bitrate_kbps = EstimateBitrate(quality),
                     !.pc = "done"]
    /\ UNCHANGED quality_frame

NextQuality ==
    \/ CalculateFileEfficiency
    \/ EstimateBitrateKbps

SpecQuality == InitQuality /\ [][NextQuality]_vars

----------------------------------------------------------------------------
(* VideoProcessor._fourcc_to_string *)

\* A FourCC value n is held in two 16-bit limbs, n = hi * 65536 + lo with
\* 0 <= lo < 65536: hi < 0 is a negative value, hi >= 65536 a value of 2^32
\* or more.  A string is the sequence of its character codes.
ByteValues == {0, 1, 65, 97, 127, 128, 255}

FourccValues ==
    {[hi |-> b2 + 256 * b3, lo |-> b0 + 256 * b1] :
        b0 \in ByteValues, b1 \in ByteValues, b2 \in ByteValues, b3 \in ByteValues}
    \cup [hi : {-1, 65536, 65537}, lo : {0, 16705}]

\* the literal "unknown"
Unknown == <<117, 110, 107, 110, 111, 119, 110>>

\* int.to_bytes(4, byteorder='little') raises OverflowError
ToBytesOverflows(f) == f.hi < 0 \/ f.hi >= 65536

ToBytesBigEndian(f) ==
    <<f.hi \div 256, f.hi % 256, f.lo \div 256, f.lo % 256>>

ToBytes(f) ==
    <<f.lo % 256, f.lo \div 256, f.hi % 256, f.hi \div 256>>

\* bytes.decode('ascii', errors='ignore'): bytes of 128 and more are dropped
DecodeAsciiIgnore(bytes) == SelectSeq(bytes, LAMBDA b : b < 128)

\* str.strip('\x00'): NUL characters are removed from both ends
RECURSIVE StripNul(_)
StripNul(str) ==
    IF str = <<>> THEN str
    ELSE IF Head(str) = 0 THEN StripNul(Tail(str))
    ELSE IF str[Len(str)] = 0 THEN StripNul(SubSeq(str, 1, Len(str) - 1))
    ELSE str

FourccToString(f) ==
    IF ToBytesOverflows(f) THEN Unknown
    ELSE LET codec == StripNul(DecodeAsciiIgnore(ToBytes(f)))
         IN IF codec = <<>> THEN Unknown ELSE codec

fourcc_frame == <<conc, batch, quality, sample, mainVars>>

InitFourcc ==
    /\ Dormant
    /\ conc = NoConc
    /\ batch = NoBatch
    /\ quality = NoQuality
    /\ sample = NoSample
    /\ \E f \in FourccValues :
          fourcc_call = [pc |-> "call", fourcc |-> f, codec |-> <<>>]

\* _extract_basic_properties: a FourCC of 0 is falsy, the codec is "unknown"
CodecOfZeroFourcc ==
    /\ fourcc_call.pc = "call"
    /\ fourcc_call.fourcc = [hi |-> 0, lo |-> 0]
    /\ fourcc_call' = [fourcc_call EXCEPT !.codec = Unknown, !.pc = "done"]
    /\ UNCHANGED fourcc_frame

\* _extract_basic_properties: self._fourcc_to_string(fourcc)
CodecOfFourcc ==
    /\ fourcc_call.pc = "call"
    /\ fourcc_call.fourcc # [hi |-> 0, lo |-> 0]
    /\ fourcc_call' = [fourcc_call EXCEPT
                         !.codec = FourccToString(fourcc_call.fourcc),
                         !.pc = "done"]
    /\ UNCHANGED fourcc_frame

NextFourcc ==
    \/ CodecOfZeroFourcc
    \/ CodecOfFourcc

SpecFourcc == InitFourcc /\ [][NextFourcc]_vars

----------------------------------------------------------------------------
(* VideoProcessor.extract_sample_frames *)

\* the frame positions to extract: all of them, or num_frames evenly spaced
\* ones; total_frames // num_frames raises ZeroDivisionError for num_frames 0
FramePositions(total_frames, num_frames) ==
    IF num_frames >= total_frames
    THEN [raises |-> FALSE, positions |-> [i \in 1..total_frames |-> i - 1]]
    ELSE IF num_frames = 0
    THEN [raises |-> TRUE, positions |-> <<>>]
    ELSE [raises |-> FALSE,
          positions |-> [i \in 1..num_frames |->
                            (i - 1) * (total_frames \div num_frames)]]

sample_frame == <<conc, batch, quality, fourcc_call, mainVars>>

\* decodable: the frames at positions below it decode
InitSample ==
    /\ Dormant
    /\ conc = NoConc
    /\ batch = NoBatch
    /\ quality = NoQuality
    /\ fourcc_call = NoFourcc
    /\ \E ex \in BOOLEAN, op \in BOOLEAN, t \in (-1)..MaxFrames,
          n \in 0..MaxNumFrames, d \in 0..MaxFrames :
          /\ d <= t \/ d = 0
          /\ sample = [NoSample EXCEPT !.pc = "start", !.exists = ex,
                                       !.opened = op, !.total_frames = t,
                                       !.num_frames = n, !.decodable = d]

\* existence check, cv2.VideoCapture, isOpened, frame count, frame positions
SampleOpen ==
    /\ sample.pc = "start"
    /\ sample' =
          IF ~sample.exists
          THEN [sample EXCEPT !.raised = "FileNotFoundError", !.pc = "done"]
          ELSE IF ~sample.opened
          THEN [sample EXCEPT !.raised = "ValueError", !.pc = "release"]
          ELSE IF sample.total_frames <= 0
          THEN [sample EXCEPT !.pc = "release"]
          ELSE IF FramePositions(sample.total_frames, sample.num_frames).raises
          THEN [sample EXCEPT !.raised = "ZeroDivisionError", !.pc = "release"]
          ELSE [sample EXCEPT
                  !.todo = FramePositions(sample.total_frames,
                                          sample.num_frames).positions,
                  !.pc = "read"]
    /\ UNCHANGED sample_frame

\* the loop body: seek to the position, read, keep the frame if it decoded
SampleReadFrame ==
    /\ sample.pc = "read"
    /\ sample' = [sample EXCEPT
                    !.reads = Append(@, Head(sample.todo)),
                    !.frames = IF Head(sample.todo) < sample.decodable
                               THEN @ + 1 ELSE @,
                    !.todo = Tail(@),
                    !.pc = IF Tail(sample.todo) = <<>> THEN "release" ELSE "read"]
    /\ UNCHANGED sample_frame

\* finally: cap.release(), then the return or the re-raise
SampleRelease ==
    /\ sample.pc = "release"
    /\ sample' = [sample EXCEPT !.released = TRUE, !.pc = "done"]
    /\ UNCHANGED sample_frame

NextSample ==
    \/ SampleOpen
    \/ SampleReadFrame
    \/ SampleRelease

SpecSample == InitSample /\ [][NextSample]_vars

----------------------------------------------------------------------------
(* Vocabulary of the properties *)

\* an S3 event has been handed to process_s3_event
EventStarted == entry = "lambda" /\ s3_event # NoEvent

\* process_s3_event has returned or raised for the current event
EventOver == EventStarted /\ pc \in {"s3_done", "raised", "returned"}

\* extract_metadata has returned or raised for the current event
ExtractOver ==
    EventStarted /\ pc \in {"validate", "cleanup", "s3_done", "raised", "returned"}

\* the reported size, as bytes/1024/1024, is strictly above the ceiling
SizeExceedsCeiling == s3_event.size > MAX_VIDEO_SIZE_MB * 1024 * 1024

\* the lowercased key ends with '.mp4', the one suffix the gate accepts
KeyEndsWithMp4 == EndsWith(Lower(s3_event.key), <<".", "m", "p", "4">>)

\* the lowercased key ends with one of the configured extensions
KeyAcceptedByConfig ==
    \E i \in 1..Len(SUPPORTED_VIDEO_FORMATS) :
        EndsWith(Lower(s3_event.key), SUPPORTED_VIDEO_FORMATS[i])

DurationWithinBounds(d_cs) ==
    /\ MIN_DURATION_SECONDS * 100 <= d_cs
    /\ d_cs <= MAX_DURATION_SECONDS * 100

----------------------------------------------------------------------------
(* Properties *)

\* _validate_video_readability has returned for the current session
ProbeOver == cap.status # "none" /\ metadata.present /\ pc # "probe"

\* the exceptions that leave download_video_file
TransferErrors ==
    {"not_found", "access_denied", "s3_failed", "s3_unexpected",
     "download_missing", "remove_error"}

\* process_s3_event: its stages in the order of the calls
StageOrder ==
    <<"size", "extension", "transfer", "extraction", "duration", "validity">>

\* the stage that raises the error e
FailedStage(e) ==
    CASE e = "too_large" -> "size"
      [] e = "unsupported_format" -> "extension"
      [] e \in TransferErrors -> "transfer"
      [] e \in {"file_not_found", "cannot_open", "extraction_error"} -> "extraction"
      [] e \in {"too_short", "too_long"} -> "duration"
      [] e = "invalid_or_corrupted" -> "validity"
      [] OTHER -> "none"

\* the session operations of _validate_video_readability in the log:
\* those after isOpened and the property reads, before the release
ProbeLog ==
    LET first == 2 + Len(PropsOps(env.video))
        last == IF cap.releases > 0 THEN Len(cap.ops) - 1 ELSE Len(cap.ops)
    IN SubSeq(cap.ops, first, last)

\* the read attempts in a sequence of session operations
NumReads(log) == Cardinality({i \in 1..Len(log) : log[i] = "read"})

\* C1: an event whose reported size exceeds MAX_VIDEO_SIZE_MB is rejected by
\* the size gate with 'too large', with no call of the download and no local
\* file created.
C1_OversizeRejectedBeforeTransfer ==
    (EventStarted /\ SizeExceedsCeiling) =>
        /\ pc \in {"size", "raised"}
        /\ pc = "raised" => err = "too_large"
        /\ downloadCalls = 0
        /\ files = filesAtStart

C1_Witness ==
    /\ pc = "raised"
    /\ err = "too_large"
    /\ s3_event.size = 600000000
    /\ downloadCalls = 0

\* C2 as stated: every event whose lowercased key does not end with an
\* accepted extension fails with 'unsupported format' and makes no download
\* call.
C2_AsClaimed ==
    (EventStarted /\ pc \notin {"size", "ext"} /\ ~KeyEndsWithMp4) =>
        /\ err = "unsupported_format"
        /\ downloadCalls = 0

\* C2 amended: an event whose lowercased key does not end with '.mp4' never
\* reaches the download; it fails with 'unsupported format' when its size
\* passed the size gate, and with 'too large' when it did not.
C2_BadExtensionRejectedBeforeTransfer ==
    (EventStarted /\ ~KeyEndsWithMp4) =>
        /\ pc \in {"size", "ext", "raised"}
        /\ downloadCalls = 0
        /\ pc = "raised" =>
              err = (IF SizeExceedsCeiling THEN "too_large" ELSE "unsupported_format")

C2_Witness ==
    /\ pc = "raised"
    /\ err = "unsupported_format"
    /\ s3_event.key = <<"c", "l", "i", "p", ".", "m", "o", "v">>
    /\ downloadCalls = 0

C4_ValidEventSucceeds ==
    (/\ EventOver
     /\ ~SizeExceedsCeiling
     /\ KeyAcceptedByConfig
     /\ env.download = "ok"
     /\ env.video.opened
     /\ ~env.video.propsRaise
     /\ ~env.video.probeRaises
     /\ env.video.decodable >= 1
     /\ env.video.fps > 0
     /\ DurationWithinBounds(RoundHalfEven(env.video.frame_count * 100000, env.video.fps)))
    =>
        /\ pc \in {"s3_done", "returned"}
        /\ err = "none"
        /\ video_metadata.present
        /\ video_metadata.is_valid_video
        /\ pc = "returned" => statusCode = 200

\* C5 as stated: once process_s3_event has returned or raised after a
\* transfer was attempted, the local temp file does not exist.
C5_AsClaimed ==
    (EventOver /\ downloadCalls > 0) => path \notin files

\* C5 amended: once process_s3_event has returned or raised after a transfer
\* was attempted, the local temp file does not exist, unless os.remove itself
\* raised while removing it.
C5_TempFileGoneUnlessRemoveFailed ==
    (EventOver /\ downloadCalls > 0 /\ ~removeFailed) => path \notin files

C5_Witness ==
    /\ pc = "raised"
    /\ err = "too_short"
    /\ downloadCalls = 1
    /\ ~removeFailed
    /\ path \notin files

\* C6: for an event whose transfer was attempted, a cleanup block of the
\* temp file (the finally of process_s3_event, or the except of
\* download_video_file when the transfer failed) has run exactly once when
\* process_s3_event is over, and never more than once before.
C6_CleanupRunsExactlyOnce ==
    /\ cleanupRuns <= 1
    /\ (EventOver /\ downloadCalls > 0) => cleanupRuns = 1

C6_Witness ==
    /\ pc = "raised"
    /\ err = "access_denied"
    /\ downloadCalls = 1
    /\ cleanupRuns = 1

\* C7: the decode session created by extract_metadata is released exactly
\* once by the time extract_metadata returns or raises, never twice, and no
\* session operation follows the release.
C7_SessionReleasedExactlyOnce ==
    /\ cap.releases <= 1
    /\ ~cap.opsAfterRelease
    /\ (ExtractOver /\ cap.status # "none") => cap.releases = 1

C7_Witness ==
    /\ pc = "raised"
    /\ err = "cannot_open"
    /\ cap.status = "released"
    /\ cap.releases = 1

\* C8 as stated: every record produced by extract_metadata whose
\* is_valid_video is true has MIN <= duration <= MAX.
C8_AsClaimed ==
    (ExtractOver /\ metadata.present /\ metadata.is_valid_video) =>
        DurationWithinBounds(metadata.duration_cs)

\* C8 amended: every record returned by validate_and_extract_metadata whose
\* is_valid_video is true has MIN <= duration <= MAX.
C8_ValidatedRecordWithinBounds ==
    (video_metadata.present /\ video_metadata.is_valid_video) =>
        DurationWithinBounds(video_metadata.duration_cs)

C8_Witness ==
    /\ video_metadata.present
    /\ video_metadata.is_valid_video
    /\ video_metadata.duration_cs = MAX_DURATION_SECONDS * 100

\* C9: in every record returned by extract_metadata, width, height,
\* frame_count and fps are non-negative.
C9_RecordFieldsNonNegative ==
    (ExtractOver /\ metadata.present) =>
        /\ metadata.width >= 0
        /\ metadata.height >= 0
        /\ metadata.frame_count >= 0
        /\ metadata.fps >= 0

\* C10: for a session reporting a frame rate of 0, the extraction yields
\* duration 0 without raising, and validate_and_extract_metadata rejects the
\* file as 'too short'.
C10_ZeroFpsIsTooShort ==
    (/\ EventStarted
     /\ cap.status # "none"
     /\ env.video.opened
     /\ ~env.video.propsRaise
     /\ env.video.fps = 0)
    =>
        /\ pc \in {"probe", "release", "validate"} =>
              metadata.present /\ metadata.duration_cs = 0 /\ err = "none"
        /\ pc \in {"cleanup", "s3_done", "raised", "returned"} => err = "too_short"
        /\ pc \notin {"s3_done", "returned"}

C10_Witness ==
    /\ pc = "raised"
    /\ err = "too_short"
    /\ env.video.fps = 0
    /\ env.video.frame_count = 9000
    /\ cap.releases = 1

\* C11: when the decode session reports isOpened() = false, extract_metadata
\* fails with 'cannot open', no metadata record is returned, and no property
\* or frame is read from the session: the only operations on it are isOpened
\* and release.
C11_UnopenedSessionFails ==
    (cap.status # "none" /\ ~env.video.opened) =>
        /\ err = "cannot_open"
        /\ ~metadata.present
        /\ ~video_metadata.present
        /\ ~result.has_metadata
        /\ \A i \in 1..Len(cap.ops) : cap.ops[i] \in {"isOpened", "release"}
        /\ pc \in {"release", "cleanup", "raised", "local_return", "returned"}

C11_Witness ==
    /\ entry = "lambda"
    /\ pc = "raised"
    /\ err = "cannot_open"
    /\ ~env.video.opened
    /\ cap.ops = <<"isOpened", "release">>

\* C12 as stated: the validity flag of the probe equals (frames decoded among
\* the first up-to-5 reads >= 1), so it is true whenever the first frame
\* decodes.
C12_AsClaimed ==
    ProbeOver => (metadata.is_valid_video = (FramesDecoded(env.video) >= 1))

\* C12 amended: the validity flag is false when a session operation raises
\* during the probe; otherwise it equals (frames decoded among the first
\* up-to-5 reads >= 1): false when frames 0 to 4 all fail, true whenever the
\* first frame decodes, whatever later frames do.
C12_FlagIsFirstFrameUnlessProbeRaises ==
    ProbeOver =>
        /\ env.video.probeRaises => ~metadata.is_valid_video
        /\ ~env.video.probeRaises =>
              (metadata.is_valid_video = (FramesDecoded(env.video) >= 1))
        /\ env.video.decodable = 0 => ~metadata.is_valid_video
        /\ (~env.video.probeRaises /\ env.video.decodable >= 1) =>
              metadata.is_valid_video

C12_Witness ==
    /\ pc = "release"
    /\ metadata.present
    /\ env.video.decodable = 1
    /\ ~env.video.probeRaises
    /\ metadata.is_valid_video
    /\ cap.ops = <<"isOpened", "get", "get", "get", "get", "get",
                   "set0", "read", "read", "set0">>

\* an invocation has ended with a failure of one of the classes input shape,
\* pre-flight reject, transfer error, post-download validation reject
ClassifiedFailure ==
    pc \in {"raised", "returned"} /\ err \notin {"none", "remove_error"}

\* C13 as stated: every such failure is surfaced to the caller of the entry
\* point as a returned failure result carrying a failure status code, the
\* correlation identifier and an error description.
C13_AsClaimed ==
    ClassifiedFailure =>
        /\ pc = "returned"
        /\ result.statusCode = 500
        /\ result.correlation_id = correlation_id
        /\ result.has_error

\* C13 amended: process_local_video_file surfaces every such failure as a
\* returned failure result carrying status code 500, the correlation
\* identifier and an error description; lambda_handler surfaces it by
\* letting the exception propagate and returns no result.
C13_LocalReturnsFailureLambdaRaises ==
    ClassifiedFailure =>
        IF entry = "local"
        THEN /\ pc = "returned"
             /\ result.statusCode = 500
             /\ result.correlation_id = correlation_id
             /\ result.has_error
        ELSE /\ pc = "raised"
             /\ result = NoResult

C13_Witness ==
    /\ entry = "local"
    /\ pc = "returned"
    /\ err = "too_short"
    /\ result.statusCode = 500
    /\ result.has_error

\* C14 as stated: every result returned by an entry point populates exactly
\* one variant: the metadata object with a success status code, or an error
\* description with a failure status code.
C14_AsClaimed ==
    pc = "returned" =>
        \/ result.has_metadata /\ ~result.has_error /\ result.statusCode = 200
        \/ result.has_error /\ ~result.has_metadata /\ result.statusCode = 500

\* C14 amended: every result returned by process_local_video_file populates
\* exactly one variant (metadata with status code 200, or an error
\* description with status code 500); the result returned by lambda_handler
\* carries status code 200 and the correlation identifier, and neither a
\* metadata object nor an error description.
C14_OneVariantLocalNeitherLambda ==
    pc = "returned" =>
        IF entry = "local"
        THEN \/ result.has_metadata /\ ~result.has_error /\ result.statusCode = 200
             \/ result.has_error /\ ~result.has_metadata /\ result.statusCode = 500
        ELSE /\ result.statusCode = 200
             /\ result.correlation_id = correlation_id
             /\ ~result.has_metadata
             /\ ~result.has_error

C14_Witness ==
    /\ entry = "local"
    /\ pc = "returned"
    /\ result.has_metadata
    /\ ~result.has_error
    /\ result.statusCode = 200
    /\ video_metadata.is_valid_video

\* C15: a record whose body is missing, is not JSON or is JSON that is no
\* object makes parse_sns_message fail with the ValueError naming the SNS
\* envelope; a Message that is missing, is not JSON or is JSON that is no
\* object makes parse_s3_events fail with the ValueError naming the S3 event
\* list; no other exception type escapes the two functions.
C15_MalformedNestingIsValueError ==
    /\ (recCount > 0 /\ pc # "parse_sns" /\ record.body \in BadShapes) =>
          pc = "raised" /\ err = "sns_parse_error"
    /\ (recCount > 0 /\ pc \notin {"parse_sns", "parse_s3"}
        /\ record.body = "object" /\ record.message \in BadShapes) =>
          pc = "raised" /\ err = "s3_parse_error"
    /\ err # "AttributeError"

\* C16: once the processing of a record has failed in lambda_handler, the
\* exception has left the handler without a result, nothing is processed
\* afterwards (no record, S3 event, gate check, transfer or extraction
\* starts), and the count of S3 events already processed never decreases.
C16_FailureAbortsBatch ==
    /\ [](pc = "raised" => (result = NoResult /\ statusCode = 0))
    /\ [][pc = "raised" =>
            /\ pc' = "raised"
            /\ recCount' = recCount
            /\ evCount' = evCount
            /\ downloadCalls' = downloadCalls
            /\ cap' = cap
            /\ completed' = completed]_vars
    /\ [][completed' >= completed]_vars

C16_Witness ==
    /\ pc = "raised"
    /\ recCount = 2
    /\ completed = 1
    /\ evCount = 2
    /\ err = "too_large"

\* the transfer of the current event was attempted and failed
TransferFailed == EventStarted /\ downloadCalls > 0 /\ err \in TransferErrors

C18_RemovalErrorNeverEscalates ==
    /\ err # "remove_error"
    /\ (EventStarted /\ downloadCalls > 0 /\ S3Error(env.download) # "none") =>
          err = S3Error(env.download)
    /\ (EventOver /\ metadata.present) => err = PostChecks(metadata)

\* C19: two concurrent invocations with different correlation identifiers
\* never have the same local path in use, and neither one's download or
\* cleanup overwrites or deletes a file the other has in use.
C19_DifferentIdsNeverShareAPath ==
    /\ (InUse(1) /\ InUse(2)) => ConcPath(1) # ConcPath(2)
    /\ ~conc.clobbered

\* C20: the result list returned by process_directory is in the order in
\* which the tasks completed.
C20_ResultsInCompletionOrder ==
    batch.pc = "returned" => ResultOrder = batch.completion

\* C21: when process_directory returns, every matched file was processed
\* and the list holds exactly one result per matched file, with statusCode
\* 500 for the files whose processing failed and 200 for the others.
C21_FailedTaskDoesNotCancelSiblings ==
    batch.pc = "returned" =>
        /\ Len(batch.results) = batch.n
        /\ \A i \in 1..batch.n :
              /\ batch.task[i] = "finished"
              /\ batch.results[i].source_file = i
              /\ batch.results[i].statusCode =
                    IF batch.err[i] = "none" THEN 200 ELSE 500

C21_Witness ==
    /\ batch.pc = "returned"
    /\ batch.n = 3
    /\ batch.err = <<"too_short", "none", "file_not_found">>
    /\ batch.completion = <<2, 1, 3>>
    /\ Len(batch.results) = 3

\* C22: for each S3 event the stages started so far are an initial part of
\* the order size gate, extension gate, transfer, extraction, duration check,
\* validity check, each at most once; when a stage has failed it is the last
\* one started; the transfer and the extraction are never run twice.
C22_StagesInOrderAtMostOnce ==
    EventStarted =>
        /\ Len(stages) <= Len(StageOrder)
        /\ stages = SubSeq(StageOrder, 1, Len(stages))
        /\ err # "none" =>
              Len(stages) > 0 /\ stages[Len(stages)] = FailedStage(err)
        /\ downloadCalls <= 1
        /\ cap.releases <= 1

C22_Witness ==
    /\ entry = "lambda"
    /\ pc = "s3_done"
    /\ stages = StageOrder
    /\ err = "none"
    /\ downloadCalls = 1

\* C23 as stated: the probe seeks to frame 0, makes at most 5 consecutive
\* read attempts that stop at the first failed read, seeks back to frame 0,
\* and on every exit of the probe the session position is frame 0.
C23_AsClaimed ==
    ProbeOver =>
        /\ Len(ProbeLog) >= 2
        /\ ProbeLog[1] = "set0"
        /\ ProbeLog[Len(ProbeLog)] = "set0"
        /\ \A i \in 2..(Len(ProbeLog) - 1) : ProbeLog[i] = "read"
        /\ NumReads(ProbeLog) <= frames_to_test
        /\ NumReads(ProbeLog) <= env.video.decodable + 1
        /\ cap.position = 0

\* C23 amended: the probe starts with a seek to frame 0, then makes at most 5
\* consecutive read attempts that stop at the first failed read; when no
\* session operation raises it then seeks back to frame 0 and exits with the
\* position at frame 0; when one raises, the probe exits at once, without a
\* further seek, with the position where the operations before it left it.
C23_ProbeProtocolUnlessProbeRaises ==
    ProbeOver =>
        /\ Len(ProbeLog) >= 1
        /\ ProbeLog[1] = "set0"
        /\ \A i \in 2..Len(ProbeLog) :
              ProbeLog[i] = "read" \/ (i = Len(ProbeLog) /\ ProbeLog[i] = "set0")
        /\ NumReads(ProbeLog) <= frames_to_test
        /\ NumReads(ProbeLog) <= env.video.decodable + 1
        /\ ~env.video.probeRaises =>
              /\ Len(ProbeLog) >= 2
              /\ ProbeLog[Len(ProbeLog)] = "set0"
              /\ NumReads(ProbeLog) = Len(ProbeLog) - 2
              /\ NumReads(ProbeLog) = frames_to_test
                    \/ NumReads(ProbeLog) = env.video.decodable + 1
              /\ cap.position = 0
        /\ env.video.probeRaises =>
              /\ Len(ProbeLog) = env.video.raiseAt
              /\ cap.position = FramesDecoded(env.video)

C23_Witness ==
    /\ pc = "release"
    /\ metadata.present
    /\ env.video.decodable = 1
    /\ ~env.video.probeRaises
    /\ ProbeLog = <<"set0", "read", "read", "set0">>
    /\ cap.position = 0

\* C24 as stated: file efficiency and estimated bitrate are 0 for a record
\* whose duration is 0, and for duration > 0 they are the quotients
\* file_size_mb / (duration / 60) and file_size_bytes * 8 / duration / 1000.
C24_AsClaimed ==
    quality.pc = "done" =>
        /\ quality.duration_cs = 0 =>
              quality.file_efficiency_c = 0 /\ quality.estimated_bitrate_kbps = 0
        /\ quality.duration_cs > 0 =>
              /\ quality.file_efficiency_c * quality.duration_cs
                    = quality.file_size_mb_c * 6000
              /\ quality.estimated_bitrate_kbps * quality.duration_cs * 10
                    = quality.file_size_bytes * 8

\* C24 amended: both metrics are 0 for a record whose duration is 0 (or
\* negative), without a division error; for duration > 0 the file efficiency
\* is file_size_mb / (duration / 60) rounded to two decimals and the bitrate
\* is file_size_bytes * 8 / duration / 1000 truncated to an integer.
C24_MetricsRoundedOrZero ==
    quality.pc = "done" =>
        /\ quality.duration_cs <= 0 =>
              quality.file_efficiency_c = 0 /\ quality.estimated_bitrate_kbps = 0
        /\ quality.duration_cs > 0 =>
              LET d == quality.duration_cs
                  e == quality.file_efficiency_c * d - quality.file_size_mb_c * 6000
                  k == quality.estimated_bitrate_kbps
              IN /\ 2 * e <= d
                 /\ 2 * e >= 0 - d
                 /\ k * d * 10 <= quality.file_size_bytes * 8
                 /\ (k + 1) * d * 10 > quality.file_size_bytes * 8

C24_Witness ==
    /\ quality.pc = "done"
    /\ quality.duration_cs = 1200
    /\ quality.file_size_bytes = 1000000
    /\ quality.estimated_bitrate_kbps = 666
    /\ quality.file_efficiency_c = 475

\* C25: for four non-null ASCII characters c0..c3 the FourCC value
\* c0 + 256*c1 + 65536*c2 + 16777216*c3 decodes to the string c0c1c2c3; a
\* value that is zero, negative, 2^32 or larger, or that yields no
\* characters decodes to "unknown"; the call always returns.
C25_FourccIsLittleEndianAscii ==
    fourcc_call.pc = "done" =>
        LET f == fourcc_call.fourcc
            chars == {b \in ByteValues : 0 < b /\ b < 128}
            dropped == {b \in ByteValues : b = 0 \/ b >= 128}
        IN /\ \A c0 \in chars, c1 \in chars, c2 \in chars, c3 \in chars :
                 (f.lo = c0 + 256 * c1 /\ f.hi = c2 + 256 * c3) =>
                     fourcc_call.codec = <<c0, c1, c2, c3>>
           /\ (f.hi = 0 /\ f.lo = 0) => fourcc_call.codec = Unknown
           /\ f.hi < 0 => fourcc_call.codec = Unknown
           /\ f.hi >= 65536 => fourcc_call.codec = Unknown
           /\ \A b0 \in dropped, b1 \in dropped, b2 \in dropped, b3 \in dropped :
                 (f.lo = b0 + 256 * b1 /\ f.hi = b2 + 256 * b3) =>
                     fourcc_call.codec = Unknown
           /\ fourcc_call.codec # <<>>

C25_Witness ==
    /\ fourcc_call.pc = "done"
    /\ fourcc_call.fourcc = [hi |-> 1 + 256 * 127, lo |-> 97 + 256 * 65]
    /\ fourcc_call.codec = <<97, 65, 1, 127>>

\* validate_and_extract_metadata has run its checks on an extracted record
ValidationOver ==
    metadata.present /\ pc \notin {"probe", "release", "validate"}

\* C26: when the extracted record fails both checks (duration outside the
\* bounds and validity flag false), validate_and_extract_metadata reports
\* 'too short' or 'too long', never 'invalid or corrupted'.
C26_DurationFailureReportedFirst ==
    (ValidationOver /\ ~metadata.is_valid_video) =>
        /\ metadata.duration_cs < MIN_DURATION_SECONDS * 100 => err = "too_short"
        /\ metadata.duration_cs > MAX_DURATION_SECONDS * 100 => err = "too_long"
        /\ ~DurationWithinBounds(metadata.duration_cs) =>
              err # "invalid_or_corrupted"

C26_Witness ==
    /\ pc = "raised"
    /\ err = "too_long"
    /\ metadata.present
    /\ ~metadata.is_valid_video
    /\ metadata.duration_cs = 30003

\* C27: in process_s3_event the temp file is never removed while a decode
\* session on it is open: while the session is open the file exists and no
\* cleanup has run, and when a cleanup has run the session, if one was
\* created, has been released.
C27_SessionReleasedBeforeFileDeleted ==
    EventStarted =>
        /\ cap.status = "open" => (path \in files /\ cleanupRuns = 0)
        /\ (cleanupRuns > 0 /\ cap.status # "none") =>
              (cap.status = "released" /\ cap.releases = 1)
        /\ (pc = "cleanup" /\ cap.status # "none") => cap.status = "released"

C27_Witness ==
    /\ entry = "lambda"
    /\ pc = "raised"
    /\ err = "extraction_error"
    /\ cap.status = "released"
    /\ cleanupRuns = 1
    /\ path \notin files

\* C28: process_local_video_file never deletes or creates the file it is
\* given: during and after the call the file at video_path exists exactly
\* when it existed before, and neither a download nor a cleanup runs.
C28_LocalFileUntouched ==
    (entry = "local" /\ pc # "handler") =>
        /\ files = filesAtStart
        /\ (path \in files) = (path \in filesAtStart)
        /\ cleanupRuns = 0
        /\ downloadCalls = 0

C28_Witness ==
    /\ entry = "local"
    /\ pc = "returned"
    /\ err = "invalid_or_corrupted"
    /\ result.statusCode = 500
    /\ path \in files
    /\ cap.releases = 1

\* C29: lambda_handler returns statusCode 200 exactly when every S3 event
\* of every record was processed without error: a returned handler has no
\* error and no S3 event left, a failed one has raised without a status
\* code; with no record, or only records without S3 events, it returns 200
\* and no gate check, transfer or extraction has run.
C29_Returns200IffAllEventsProcessed ==
    entry = "lambda" =>
        /\ pc = "returned" =>
              /\ statusCode = 200
              /\ result.statusCode = 200
              /\ err = "none"
              /\ eventsLeft = 0
              /\ completed = evCount
        /\ statusCode = 200 => pc = "returned"
        /\ err # "none" => (statusCode = 0 /\ pc # "returned")
        /\ pc = "raised" => err # "none"
        /\ (pc = "returned" /\ evCount = 0) =>
              (stages = <<>> /\ downloadCalls = 0 /\ cap = NoCap /\ files = {})

C29_Witness ==
    /\ entry = "lambda"
    /\ pc = "returned"
    /\ recCount = 2
    /\ record.nEvents = 0
    /\ evCount = 0
    /\ statusCode = 200

\* C30: for an openable video with total frame count T >= 0 and a requested
\* num_frames >= 0, extract_sample_frames returns at most min(num_frames, T)
\* frames without raising, reads only positions p with 0 <= p < T in
\* strictly increasing order, and has released the session when it returns.
C30_SampleFramesWithinBounds ==
    (sample.pc # "none" /\ sample.exists /\ sample.opened
     /\ sample.total_frames >= 0 /\ sample.num_frames >= 0) =>
        /\ sample.raised = "none"
        /\ sample.frames <= sample.num_frames
        /\ sample.frames <= sample.total_frames
        /\ \A i \in 1..Len(sample.reads) :
              0 <= sample.reads[i] /\ sample.reads[i] < sample.total_frames
        /\ \A i \in 1..(Len(sample.reads) - 1) :
              sample.reads[i] < sample.reads[i + 1]
        /\ sample.pc = "done" => sample.released

====
